---- MODULE Spec2Model ----
(***************************************************************************)
(* The document ingestion pipeline of RAG-tool: the SQLite document store  *)
(* (src/src/database.py) and the background processor with its job queue,  *)
(* worker threads and progress callbacks (src/src/background_processor.py).*)
(*                                                                         *)
(* Every statement of the code that reads or writes shared state (a store  *)
(* transaction, a queue operation, a read of the callback registry or of   *)
(* the running flag) is one step of the thread that executes it; purely    *)
(* local statements are folded into the step that precedes them.           *)
(* The store's transactions are assumed to commit (SQLite serialises them);*)
(* add_chunks alone may raise part-way, which rolls its transaction back.  *)
(***************************************************************************)
EXTENDS Integers, Sequences, FiniteSets, TLC

\* ------------------------------------------------------------------ bounds
MaxWorkers == 2        \* max_workers ranges over 1..MaxWorkers
MaxQueueCalls == 2     \* queue_document calls in one behaviour
MaxDeletes == 1        \* delete_document calls in one behaviour
MaxStops == 1          \* stop calls in one behaviour
MaxStarts == 1         \* start calls after construction in one behaviour
MaxChunks == 2         \* chunks chunk_text makes of the longer document

\* ------------------------------------------------------------- environment
\* Source files on disk: two paths hold the same bytes, a third holds others.
Paths == {"p1", "p2", "p3"}
Content(path) == IF path = "p3" THEN "B" ELSE "A"
Contents == {Content(p) : p \in Paths}

\* hashlib.md5(f.read()).hexdigest(): a digest of the bytes, not of the path.
get_file_hash(path) == IF Content(path) = "A" THEN "md5_A" ELSE "md5_B"

\* SQL NULL / Python None, and a present value.
Null == <<>>
Some(v) == <<v>>

DocIds == 1..MaxQueueCalls
Threads == 1..(MaxWorkers * (MaxStarts + 1))
NoJob == [document_id |-> 0, file_path |-> ""]
\* the None that stop() puts on the queue
Sentinel == [document_id |-> 0, file_path |-> "None"]
NoEvent == [doc_id |-> 0, status |-> "", progress |-> -1, observer |-> 0,
            threw |-> FALSE]

\* embedder.chunk_text(document_text): the chunk dicts, chunk_id 0..n-1, of a
\* text (the chunker itself is modelled separately, on token sequences).
NumChunks(content) == IF content = "A" THEN MaxChunks ELSE 1
chunk_text(content) ==
    [k \in 1..NumChunks(content) |->
        [chunk_id |-> k - 1, text |-> <<content, k - 1>>]]

\* ------------------------------------------------------------------- state
VARIABLES
    documents,          \* documents table: id -> row, or NoRow
    seq_documents,      \* sqlite_sequence of documents (AUTOINCREMENT)
    chunks,             \* chunks table: its rows in rowid order
    job_queue,          \* queue.Queue(): FIFO of jobs and None sentinels
    progress_callbacks, \* doc id -> observer, 0 when not registered
    running,            \* self.running
    max_workers,        \* self.max_workers
    pc,                 \* thread -> position in _worker_loop / _process_job
    job,                \* thread -> the job it dequeued
    idx,                \* thread -> i of the embedding loop
    embeddings_data,    \* thread -> chunks embedded so far in this run
    error_msg,          \* thread -> str(e) of the exception being handled
    stale,              \* thread -> its job's document had no record at dequeue
    last_progress,      \* thread -> percentage last delivered in its run, or -1
    delivered,          \* the progress event the step just taken delivered
    cpc,                \* caller's position
    c_path, c_cb, c_doc_id, c_k,   \* caller's locals
    ncalls, ndeletes, nstops, nstarts,  \* calls made so far
    limits,             \* calls the caller makes at most, by operation
    last_id,            \* content -> id the last queue_document returned for it
    r_query,            \* the query of a question: its length in characters
    r_chunks,           \* relevant_chunks: the candidates, best first
    r_answer,           \* what the answer call did, NoAnswer before it
    r_result,           \* the dict the answer call returned, NoResult before
    f_args,             \* the arguments of a find_similar_chunks call
    f_out,              \* what the call computed and returned, NoOutcome before
    k_args,             \* the arguments of a chunk_text call
    k_out               \* the chunks it returned, NotChunked before

dbvars == <<documents, seq_documents, chunks>>
queryvars == <<r_query, r_chunks, r_answer, r_result, f_args, f_out,
              k_args, k_out>>
wvars == <<pc, job, idx, embeddings_data, error_msg, stale, last_progress>>
cvars == <<cpc, c_path, c_cb, c_doc_id, c_k>>
counters == <<ncalls, ndeletes, nstops, nstarts, limits>>
vars == <<documents, seq_documents, chunks, job_queue, progress_callbacks,
          running, max_workers, pc, job, idx, embeddings_data, error_msg,
          stale, last_progress, delivered, cpc, c_path, c_cb, c_doc_id, c_k,
          ncalls, ndeletes, nstops, nstarts, limits, last_id,
          r_query, r_chunks, r_answer, r_result, f_args, f_out, k_args, k_out>>

NoRow == [file_hash |-> "", original_path |-> "", status |-> "absent",
          error_message |-> Null, total_chunks |-> Null, processed_at |-> Null]

Exists(docs, id) == id \in DocIds /\ docs[id].status # "absent"

\* ------------------------------------------------------------ the store
\* add_document without the UNIQUE file_hash: every call inserts a row.
add_document_no_dedup(docs, seq, path) ==
    [docs |-> [docs EXCEPT ![seq + 1] =
                 [file_hash |-> get_file_hash(path), original_path |-> path,
                  status |-> "pending", error_message |-> Null,
                  total_chunks |-> Null, processed_at |-> Null]],
     seq |-> seq + 1, id |-> seq + 1]

\* add_document as an upsert (INSERT OR REPLACE keeping the id): the existing
\* row is overwritten with the new path and status 'pending'.
add_document_upsert(docs, seq, path) ==
    LET h == get_file_hash(path)
        same == {d \in DocIds : Exists(docs, d) /\ docs[d].file_hash = h}
        row == [file_hash |-> h, original_path |-> path,
                status |-> "pending", error_message |-> Null,
                total_chunks |-> Null, processed_at |-> Null]
    IN  IF same # {}
        THEN [docs |-> [docs EXCEPT ![CHOOSE d \in same : TRUE] = row],
              seq |-> seq, id |-> CHOOSE d \in same : TRUE]
        ELSE [docs |-> [docs EXCEPT ![seq + 1] = row],
              seq |-> seq + 1, id |-> seq + 1]

\* INSERT OR IGNORE INTO documents ... 'pending': file_hash is UNIQUE, the id
\* is AUTOINCREMENT (never reused).  Result: the table, the sequence, the id.
add_document(docs, seq, path) ==
    LET h == get_file_hash(path)
        same == {d \in DocIds : Exists(docs, d) /\ docs[d].file_hash = h}
    IN  IF same # {}
        THEN [docs |-> docs, seq |-> seq, id |-> CHOOSE d \in same : TRUE]
        ELSE [docs |-> [docs EXCEPT ![seq + 1] =
                          [file_hash |-> h, original_path |-> path,
                           status |-> "pending", error_message |-> Null,
                           total_chunks |-> Null, processed_at |-> Null]],
              seq |-> seq + 1, id |-> seq + 1]

\* update_document_status that leaves the error_message column alone.
update_status_column_only(docs, doc_id, status, error_message) ==
    IF ~Exists(docs, doc_id) THEN docs
    ELSE [docs EXCEPT ![doc_id].status = status]

\* update_document_status with error_message = COALESCE(?, error_message):
\* a call without a message keeps the message the row has.
update_status_keeps_message(docs, doc_id, status, error_message) ==
    IF ~Exists(docs, doc_id) THEN docs
    ELSE LET kept == IF error_message = Null THEN docs[doc_id].error_message
                     ELSE error_message
         IN  IF status = "completed"
             THEN [docs EXCEPT ![doc_id].status = status,
                               ![doc_id].processed_at = Some("ts"),
                               ![doc_id].error_message = kept]
             ELSE [docs EXCEPT ![doc_id].status = status,
                               ![doc_id].error_message = kept]

\* UPDATE documents SET status = ?, [processed_at = CURRENT_TIMESTAMP,]
\* error_message = ? WHERE id = ?   (no row: nothing is updated)
update_document_status(docs, doc_id, status, error_message) ==
    IF ~Exists(docs, doc_id) THEN docs
    ELSE IF status = "completed"
    THEN [docs EXCEPT ![doc_id].status = status,
                      ![doc_id].processed_at = Some("ts"),
                      ![doc_id].error_message = error_message]
    ELSE [docs EXCEPT ![doc_id].status = status,
                      ![doc_id].error_message = error_message]

\* The rows of a document in the chunks table, in rowid order.
RowsOf(table, doc_id) == SelectSeq(table, LAMBDA r : r.document_id = doc_id)

\* INSERT OR REPLACE on a chunks table whose uniqueness is UNIQUE(chunk_id):
\* the new row replaces the rows of any document with its chunk_id.
insert_or_replace_by_chunk_id(table, row) ==
    Append(SelectSeq(table, LAMBDA r : r.chunk_id # row.chunk_id), row)

\* INSERT OR REPLACE INTO chunks: UNIQUE(document_id, chunk_id) makes the new
\* row replace the rows it conflicts with; the new row gets the next rowid.
insert_or_replace(table, row) ==
    Append(SelectSeq(table, LAMBDA r : ~(r.document_id = row.document_id
                                         /\ r.chunk_id = row.chunk_id)),
           row)

\* for chunk in chunks: conn.execute("INSERT OR REPLACE ...")
RECURSIVE insert_all(_, _, _)
insert_all(table, doc_id, data) ==
    IF data = <<>> THEN table
    ELSE insert_all(
            insert_or_replace(table,
                [document_id |-> doc_id, chunk_id |-> Head(data).chunk_id,
                 text |-> Head(data).text, embedding |-> Head(data).embedding]),
            doc_id, Tail(data))

\* SELECT COUNT(*) FROM chunks WHERE document_id = ?
CountChunks(table, doc_id) == Len(RowsOf(table, doc_id))

\* add_chunks that sets total_chunks to the size of the batch.
add_chunks_count_batch(docs, table, doc_id, data) ==
    [chunks |-> insert_all(table, doc_id, data),
     docs |-> IF Exists(docs, doc_id)
              THEN [docs EXCEPT ![doc_id].total_chunks = Some(Len(data))]
              ELSE docs]

\* add_chunks: one transaction; the rows, then total_chunks = COUNT(*).
add_chunks(docs, table, doc_id, data) ==
    LET t2 == insert_all(table, doc_id, data)
    IN  [chunks |-> t2,
         docs |-> IF Exists(docs, doc_id)
                  THEN [docs EXCEPT ![doc_id].total_chunks = Some(CountChunks(t2, doc_id))]
                  ELSE docs]

\* delete_document without its second DELETE: the documents row stays.
delete_chunks_only(docs, table, doc_id) ==
    [chunks |-> SelectSeq(table, LAMBDA r : r.document_id # doc_id), docs |-> docs]

\* DELETE FROM chunks WHERE document_id = ?; DELETE FROM documents WHERE id = ?
\* in one transaction.
delete_document(docs, table, doc_id) ==
    [chunks |-> SelectSeq(table, LAMBDA r : r.document_id # doc_id),
     docs |-> IF doc_id \in DocIds THEN [docs EXCEPT ![doc_id] = NoRow] ELSE docs]

\* ORDER BY chunk_id: insertion of each row after the rows sorted so far whose
\* chunk_id is not greater.
RECURSIVE OrderByChunkId(_)
OrderByChunkId(rows) ==
    IF rows = <<>> THEN <<>>
    ELSE LET rest == OrderByChunkId(Tail(rows))
             h == Head(rows)
         IN  SelectSeq(rest, LAMBDA r : r.chunk_id < h.chunk_id)
                 \o <<h>>
                 \o SelectSeq(rest, LAMBDA r : r.chunk_id >= h.chunk_id)

\* get_chunks_df: SELECT ... FROM chunks WHERE document_id = ? ORDER BY chunk_id
get_chunks_df(table, doc_id) == OrderByChunkId(RowsOf(table, doc_id))

\* ------------------------------------------------------------ construction
\* BackgroundProcessor.__init__ on an empty store: start() has spawned
\* max_workers threads, each at the top of _worker_loop.
Constructed ==
    /\ documents = [d \in DocIds |-> NoRow]
    /\ seq_documents = 0
    /\ chunks = <<>>
    /\ job_queue = <<>>
    /\ progress_callbacks = [d \in DocIds |-> 0]
    /\ running = TRUE
    /\ max_workers \in 1..MaxWorkers
    /\ pc = [t \in Threads |-> IF t <= max_workers THEN "loop" ELSE "unborn"]
    /\ job = [t \in Threads |-> NoJob]
    /\ idx = [t \in Threads |-> 0]
    /\ embeddings_data = [t \in Threads |-> <<>>]
    /\ error_msg = [t \in Threads |-> ""]
    /\ stale = [t \in Threads |-> FALSE]
    /\ last_progress = [t \in Threads |-> -1]
    /\ delivered = NoEvent
    /\ cpc = "idle"
    /\ c_path = ""
    /\ c_cb = 0
    /\ c_doc_id = 0
    /\ c_k = 0
    /\ ncalls = 0
    /\ ndeletes = 0
    /\ nstops = 0
    /\ nstarts = 0
    /\ last_id = [c \in Contents |-> 0]

\* No question has been asked of the answer chain.
NoAnswer == [mode |-> "", sent |-> FALSE, limited |-> <<>>,
             context_tokens |-> 0, instruction_tokens |-> 0,
             entry |-> "", model |-> "", with_context |-> FALSE,
             failed |-> FALSE, include_neighbors |-> FALSE]
NoResult == <<>>
\* No retrieval has been asked of the embedder.
NoArgs == [embed_ok |-> TRUE, embeddings_df |-> <<>>, top_k |-> 0,
           include_neighbors |-> FALSE]
NoOutcome == [returned |-> FALSE, raised |-> FALSE, top_indices |-> <<>>,
              results |-> <<>>]
\* ... and no text has been given to the chunker.
NoText == [sentences |-> <<>>, chunk_size |-> 0, overlap |-> 0]
NotChunked == [returned |-> FALSE, chunks |-> <<>>]
NoRetrieval ==
    /\ f_args = NoArgs
    /\ f_out = NoOutcome
    /\ k_args = NoText
    /\ k_out = NotChunked

NoQuestion ==
    /\ r_query = 0
    /\ r_chunks = <<>>
    /\ r_answer = NoAnswer
    /\ r_result = NoResult
    /\ NoRetrieval

Init ==
    /\ Constructed
    /\ NoQuestion
    /\ limits = [queue |-> MaxQueueCalls, delete |-> MaxDeletes,
                 stop |-> 0, start |-> 0]

\* ----------------------------------------------------------- queue_document
\* doc_id = self.db.add_document(filename, file_path, file_size, num_pages).
\* The observer of the n-th call is n; 0 is progress_callback=None.
QueueAddDocument(path, cb) ==
    LET r == add_document(documents, seq_documents, path)
    IN  /\ cpc = "idle"
        /\ ncalls < limits.queue
        /\ documents' = r.docs
        /\ seq_documents' = r.seq
        /\ c_doc_id' = r.id
        /\ c_path' = path
        /\ c_cb' = cb
        /\ cpc' = "q_check"
        /\ ncalls' = ncalls + 1
        /\ delivered' = NoEvent
        /\ UNCHANGED <<chunks, job_queue, progress_callbacks, running, max_workers,
                       wvars, queryvars, c_k, ndeletes, nstops, nstarts, limits, last_id>>

CallerReturn ==
    /\ cpc' = "idle"
    /\ c_path' = ""
    /\ c_cb' = 0
    /\ c_doc_id' = 0
    /\ c_k' = 0

\* queue_document without the check of lines 285-290: every call registers
\* its observer and puts a job.
QueueNoShortCircuit ==
    /\ cpc = "q_check"
    /\ delivered' = NoEvent
    /\ cpc' = "q_register"
    /\ UNCHANGED <<dbvars, job_queue, progress_callbacks, running, max_workers,
                   wvars, queryvars, counters, c_path, c_cb, c_doc_id, c_k, last_id>>

\* doc = get_document_by_id(doc_id); if doc and doc['status'] == 'completed':
\* progress_callback(doc_id, 'completed', 100, ...) if given; return doc_id.
\* The callback is called directly: what it raises leaves queue_document,
\* which then returns no id.
QueueCheckProcessed ==
    /\ cpc = "q_check"
    /\ IF Exists(documents, c_doc_id) /\ documents[c_doc_id].status = "completed"
       THEN \E threw \in BOOLEAN :
            /\ delivered' =
                  IF c_cb # 0
                  THEN [doc_id |-> c_doc_id, status |-> "completed",
                        progress |-> 100, observer |-> c_cb, threw |-> threw]
                  ELSE NoEvent
            /\ CallerReturn
            /\ last_id' = IF c_cb # 0 /\ threw THEN last_id
                          ELSE [last_id EXCEPT ![Content(c_path)] = c_doc_id]
       ELSE /\ delivered' = NoEvent
            /\ cpc' = "q_register"
            /\ UNCHANGED <<c_path, c_cb, c_doc_id, c_k, last_id>>
    /\ UNCHANGED <<dbvars, job_queue, progress_callbacks, running, max_workers,
                   wvars, queryvars, counters>>

\* if progress_callback: self.progress_callbacks[doc_id] = progress_callback
QueueRegister ==
    /\ cpc = "q_register"
    /\ progress_callbacks' =
          IF c_cb # 0 THEN [progress_callbacks EXCEPT ![c_doc_id] = c_cb]
          ELSE progress_callbacks
    /\ cpc' = "q_put"
    /\ delivered' = NoEvent
    /\ UNCHANGED <<dbvars, job_queue, running, max_workers, wvars, queryvars,
                   c_path, c_cb, c_doc_id, c_k, counters, last_id>>

\* self.job_queue.put(job); return doc_id.  
QueuePut ==
    /\ cpc = "q_put"
    /\ job_queue' = Append(job_queue,
          [document_id |-> c_doc_id, file_path |-> c_path])
    /\ last_id' = [last_id EXCEPT ![Content(c_path)] = c_doc_id]
    /\ CallerReturn
    /\ delivered' = NoEvent
    /\ UNCHANGED <<dbvars, progress_callbacks, running, max_workers, wvars, queryvars, counters>>

\* ---------------------------------------------------------- delete_document
\* if doc_id in self.progress_callbacks: del self.progress_callbacks[doc_id]
DeleteCallback(doc_id) ==
    /\ cpc = "idle"
    /\ ndeletes < limits.delete
    /\ ndeletes' = ndeletes + 1
    /\ progress_callbacks' = [progress_callbacks EXCEPT ![doc_id] = 0]
    /\ c_doc_id' = doc_id
    /\ cpc' = "d_db"
    /\ delivered' = NoEvent
    /\ UNCHANGED <<dbvars, job_queue, running, max_workers, wvars, queryvars,
                   c_path, c_cb, c_k, ncalls, nstops, nstarts, limits, last_id>>

\* return self.db.delete_document(doc_id)
DeleteRows ==
    LET r == delete_document(documents, chunks, c_doc_id)
    IN  /\ cpc = "d_db"
        /\ documents' = r.docs
        /\ chunks' = r.chunks
        /\ last_id' = [c \in Contents |-> IF last_id[c] = c_doc_id THEN 0 ELSE last_id[c]]
        /\ CallerReturn
        /\ delivered' = NoEvent
        /\ UNCHANGED <<seq_documents, job_queue, progress_callbacks, running,
                       max_workers, wvars, queryvars, counters>>

\* ------------------------------------------------------------- stop, start
\* self.running = False
StopFlag ==
    /\ cpc = "idle"
    /\ nstops < limits.stop
    /\ nstops' = nstops + 1
    /\ running' = FALSE
    /\ cpc' = "s_put"
    /\ c_k' = 0
    /\ delivered' = NoEvent
    /\ UNCHANGED <<dbvars, job_queue, progress_callbacks, max_workers, wvars, queryvars,
                   c_path, c_cb, c_doc_id, ncalls, ndeletes, nstarts, limits, last_id>>

\* for _ in range(self.max_workers): self.job_queue.put(None)
StopPutSentinel ==
    /\ cpc = "s_put"
    /\ c_k < max_workers
    /\ job_queue' = Append(job_queue, Sentinel)
    /\ c_k' = c_k + 1
    /\ delivered' = NoEvent
    /\ UNCHANGED <<dbvars, progress_callbacks, running, max_workers, wvars, queryvars,
                   cpc, c_path, c_cb, c_doc_id, counters, last_id>>

\* for worker in self.workers: worker.join(timeout=5): returns when the
\* workers have exited or the timeouts have passed.
StopJoin ==
    /\ cpc = "s_put"
    /\ c_k = max_workers
    /\ CallerReturn
    /\ delivered' = NoEvent
    /\ UNCHANGED <<dbvars, job_queue, progress_callbacks, running, max_workers,
                   wvars, queryvars, counters, last_id>>

\* start(): if self.running: return; self.running = True; spawn max_workers
\* threads.
Start ==
    LET born == {t \in Threads : pc[t] # "unborn"}
        first == Cardinality(born)
    IN  /\ cpc = "idle"
        /\ nstarts < limits.start
        /\ nstarts' = nstarts + 1
        /\ IF running
           THEN UNCHANGED <<running, pc>>
           ELSE /\ running' = TRUE
                /\ pc' = [t \in Threads |->
                            IF t > first /\ t <= first + max_workers
                            THEN "loop" ELSE pc[t]]
        /\ delivered' = NoEvent
        /\ UNCHANGED <<dbvars, job_queue, progress_callbacks, max_workers,
                       job, idx, embeddings_data, error_msg, stale,
                       last_progress, cvars, ncalls, ndeletes, nstops, limits, last_id,
                       queryvars>>

\* ------------------------------------------------------------ _worker_loop
cunch == <<cpc, c_path, c_cb, c_doc_id, c_k, ncalls, ndeletes, nstops, nstarts,
          limits, last_id, queryvars>>

\* _worker_loop as `while True:`: the running flag is never read.
WorkerLoopIgnoresFlag(t) ==
    /\ pc[t] = "loop"
    /\ pc' = [pc EXCEPT ![t] = "get"]
    /\ delivered' = NoEvent
    /\ UNCHANGED <<dbvars, job_queue, progress_callbacks, running, max_workers,
                   job, idx, embeddings_data, error_msg, stale, last_progress,
                   cunch>>

\* while self.running:
WorkerLoop(t) ==
    /\ pc[t] = "loop"
    /\ pc' = [pc EXCEPT ![t] = IF running THEN "get" ELSE "exited"]
    /\ delivered' = NoEvent
    /\ UNCHANGED <<dbvars, job_queue, progress_callbacks, running, max_workers,
                   job, idx, embeddings_data, error_msg, stale, last_progress,
                   cunch>>

\* _worker_loop on a queue.LifoQueue: get() takes the job put last.
WorkerGetLast(t) ==
    /\ pc[t] = "get"
    /\ IF job_queue = <<>>
       THEN /\ pc' = [pc EXCEPT ![t] = "loop"]
            /\ UNCHANGED <<job_queue, job, stale>>
       ELSE /\ job_queue' = SubSeq(job_queue, 1, Len(job_queue) - 1)
            /\ IF job_queue[Len(job_queue)] = Sentinel
               THEN /\ pc' = [pc EXCEPT ![t] = "exited"]
                    /\ UNCHANGED <<job, stale>>
               ELSE /\ pc' = [pc EXCEPT ![t] = "set_processing"]
                    /\ job' = [job EXCEPT ![t] = job_queue[Len(job_queue)]]
                    /\ stale' = [stale EXCEPT ![t] =
                          ~Exists(documents, job_queue[Len(job_queue)].document_id)]
    /\ delivered' = NoEvent
    /\ UNCHANGED <<dbvars, progress_callbacks, running, max_workers,
                   idx, embeddings_data, error_msg, last_progress, cunch>>

\* job = self.job_queue.get(timeout=1); if job is None: break;
\* except queue.Empty: continue
WorkerGet(t) ==
    /\ pc[t] = "get"
    /\ IF job_queue = <<>>
       THEN /\ pc' = [pc EXCEPT ![t] = "loop"]
            /\ UNCHANGED <<job_queue, job, stale>>
       ELSE /\ job_queue' = Tail(job_queue)
            /\ IF Head(job_queue) = Sentinel
               THEN /\ pc' = [pc EXCEPT ![t] = "exited"]
                    /\ UNCHANGED <<job, stale>>
               ELSE /\ pc' = [pc EXCEPT ![t] = "set_processing"]
                    /\ job' = [job EXCEPT ![t] = Head(job_queue)]
                    /\ stale' = [stale EXCEPT ![t] =
                          ~Exists(documents, Head(job_queue).document_id)]
    /\ delivered' = NoEvent
    /\ UNCHANGED <<dbvars, progress_callbacks, running, max_workers,
                   idx, embeddings_data, error_msg, last_progress, cunch>>

\* ------------------------------------------------------------ _process_job
\* _notify_progress that calls the observer the job was queued with, whether
\* or not it is still in the registry.
notify_progress_unchecked(t, status, progress, threw) ==
    [doc_id |-> job[t].document_id, status |-> status, progress |-> progress,
     observer |-> IF progress_callbacks[job[t].document_id] # 0
                  THEN progress_callbacks[job[t].document_id] ELSE 1,
     threw |-> threw]

\* _notify_progress: if doc_id in self.progress_callbacks: call it.
\* The event the call delivers (NoEvent when no observer is registered);
\* threw tells whether the observer raised.
notify_progress(t, status, progress, threw) ==
    IF progress_callbacks[job[t].document_id] # 0
    THEN [doc_id |-> job[t].document_id, status |-> status, progress |-> progress,
          observer |-> progress_callbacks[job[t].document_id], threw |-> threw]
    ELSE NoEvent

\* _notify_progress without its try/except: what the observer raises reaches
\* the caller of _notify_progress.
callback_error_uncaught(ev) == IF ev.threw THEN "callback raised" ELSE ""

\* try: callback(...) except Exception as e: logger.error(...): the message
\* of the exception _notify_progress lets through to its caller; "" is none.
callback_error(ev) == ""

\* One call of _notify_progress by thread t; the observer may raise.
Deliver(t, status, progress) ==
    \E threw \in BOOLEAN :
        delivered' = notify_progress(t, status, progress, threw)

\* The percentage thread t delivered last in its run.
Track(t) ==
    last_progress' = IF delivered' = NoEvent THEN last_progress
                     ELSE [last_progress EXCEPT ![t] = delivered'.progress]

\* _process_job without its try/except: the exception ends the thread.
RaiseUncaught(t, msg) ==
    /\ pc' = [pc EXCEPT ![t] = "exited"]
    /\ error_msg' = [error_msg EXCEPT ![t] = msg]

\* except Exception as e: error_msg = str(e)
Raise(t, msg) ==
    /\ pc' = [pc EXCEPT ![t] = "set_failed"]
    /\ error_msg' = [error_msg EXCEPT ![t] = msg]

\* self.db.update_document_status(doc_id, 'processing')
SetProcessing(t) ==
    /\ pc[t] = "set_processing"
    /\ documents' = update_document_status(documents, job[t].document_id,
                                           "processing", Null)
    /\ pc' = [pc EXCEPT ![t] = "notify0"]
    /\ delivered' = NoEvent
    /\ UNCHANGED <<seq_documents, chunks, job_queue, progress_callbacks, running,
                   max_workers, job, idx, embeddings_data, error_msg, stale,
                   last_progress, cunch>>

\* self._notify_progress(doc_id, 'processing', 0, ...)
Notify0(t) ==
    /\ pc[t] = "notify0"
    /\ Deliver(t, "processing", 0)
    /\ Track(t)
    /\ IF callback_error(delivered') # ""
       THEN Raise(t, callback_error(delivered'))
       ELSE /\ pc' = [pc EXCEPT ![t] = "notify10"]
            /\ UNCHANGED error_msg
    /\ UNCHANGED <<dbvars, job_queue, progress_callbacks, running, max_workers,
                   job, idx, embeddings_data, stale, cunch>>

\* _notify_progress(.., 10, ..); open(file_path); load_pdf(f);
\* if not document_text: raise Exception("Failed to extract text from PDF")
Notify10Load(t) ==
    /\ pc[t] = "notify10"
    /\ Deliver(t, "processing", 10)
    /\ Track(t)
    /\ IF callback_error(delivered') # ""
       THEN Raise(t, callback_error(delivered'))
       ELSE \/ /\ pc' = [pc EXCEPT ![t] = "notify30"]
               /\ UNCHANGED error_msg
            \/ Raise(t, "No such file or directory")
            \/ Raise(t, "Failed to extract text from PDF")
    /\ UNCHANGED <<dbvars, job_queue, progress_callbacks, running, max_workers,
                   job, idx, embeddings_data, stale, cunch>>

\* _notify_progress(.., 30, ..); chunks = self.embedder.chunk_text(text)
Notify30Chunk(t) ==
    /\ pc[t] = "notify30"
    /\ Deliver(t, "processing", 30)
    /\ Track(t)
    /\ IF callback_error(delivered') # ""
       THEN Raise(t, callback_error(delivered'))
       ELSE \/ /\ pc' = [pc EXCEPT ![t] = "notify40"]
               /\ UNCHANGED error_msg
            \/ Raise(t, "chunk_text raised")
    /\ UNCHANGED <<dbvars, job_queue, progress_callbacks, running, max_workers,
                   job, idx, embeddings_data, stale, cunch>>

\* _notify_progress(.., 40, ..); embeddings_data = []
Notify40(t) ==
    /\ pc[t] = "notify40"
    /\ Deliver(t, "processing", 40)
    /\ Track(t)
    /\ IF callback_error(delivered') # ""
       THEN Raise(t, callback_error(delivered'))
       ELSE /\ pc' = [pc EXCEPT ![t] = "embed"]
            /\ UNCHANGED error_msg
    /\ UNCHANGED <<dbvars, job_queue, progress_callbacks, running, max_workers,
                   job, idx, embeddings_data, stale, cunch>>

\* response.data[0].embedding: the vector the backend returns for a text
embeddings_create(text) == <<"vec", text>>

\* progress = 40 + int((i + 1) / len(chunks) * 50)
embed_progress(i, n) == 40 + ((i + 1) * 50) \div n

\* The embedding call of chunk i is in flight while pc = "embed"; the step is
\* its return: on success append the chunk and notify, on failure continue
\* (the try of the loop body also takes whatever the notification lets
\* through, after the append).  After the last chunk:
\* if not embeddings_data: raise.
Embed(t, ok) ==
    LET cs == chunk_text(Content(job[t].file_path))
        n == Len(cs)
        chunk == cs[idx[t] + 1]
        data == IF ok
                THEN Append(embeddings_data[t],
                            [chunk_id |-> chunk.chunk_id, text |-> chunk.text,
                             embedding |-> embeddings_create(chunk.text)])
                ELSE embeddings_data[t]
    IN  /\ pc[t] = "embed"
        /\ embeddings_data' = [embeddings_data EXCEPT ![t] = data]
        /\ idx' = [idx EXCEPT ![t] = idx[t] + 1]
        /\ IF ok
           THEN Deliver(t, "processing", embed_progress(idx[t], n))
           ELSE delivered' = NoEvent
        /\ Track(t)
        /\ IF idx[t] + 1 < n
           THEN UNCHANGED <<pc, error_msg>>
           ELSE IF data # <<>>
           THEN /\ pc' = [pc EXCEPT ![t] = "notify90"]
                /\ UNCHANGED error_msg
           ELSE Raise(t, "Failed to generate any embeddings")
        /\ UNCHANGED <<dbvars, job_queue, progress_callbacks, running, max_workers,
                       job, stale, cunch>>

\* self._notify_progress(doc_id, 'processing', 90, "Saving to database...")
Notify90(t) ==
    /\ pc[t] = "notify90"
    /\ Deliver(t, "processing", 90)
    /\ Track(t)
    /\ IF callback_error(delivered') # ""
       THEN Raise(t, callback_error(delivered'))
       ELSE /\ pc' = [pc EXCEPT ![t] = "add_chunks"]
            /\ UNCHANGED error_msg
    /\ UNCHANGED <<dbvars, job_queue, progress_callbacks, running, max_workers,
                   job, idx, embeddings_data, stale, cunch>>

\* self.db.add_chunks(doc_id, embeddings_data): commits, or raises and rolls back
AddChunks(t, ok) ==
    LET r == add_chunks(documents, chunks, job[t].document_id, embeddings_data[t])
    IN  /\ pc[t] = "add_chunks"
        /\ IF ok
           THEN /\ documents' = r.docs
                /\ chunks' = r.chunks
                /\ pc' = [pc EXCEPT ![t] = "set_completed"]
                /\ UNCHANGED error_msg
           ELSE /\ Raise(t, "add_chunks raised")
                /\ UNCHANGED <<documents, chunks>>
        /\ delivered' = NoEvent
        /\ UNCHANGED <<seq_documents, job_queue, progress_callbacks, running,
                       max_workers, job, idx, embeddings_data, stale,
                       last_progress, cunch>>

\* self.db.update_document_status(doc_id, 'completed')
SetCompleted(t) ==
    /\ pc[t] = "set_completed"
    /\ documents' = update_document_status(documents, job[t].document_id,
                                           "completed", Null)
    /\ pc' = [pc EXCEPT ![t] = "notify100"]
    /\ delivered' = NoEvent
    /\ UNCHANGED <<seq_documents, chunks, job_queue, progress_callbacks, running,
                   max_workers, job, idx, embeddings_data, error_msg, stale,
                   last_progress, cunch>>

\* _process_job returns; self.job_queue.task_done(); back to the loop test
EndRun(t) ==
    /\ pc' = [pc EXCEPT ![t] = "loop"]
    /\ job' = [job EXCEPT ![t] = NoJob]
    /\ idx' = [idx EXCEPT ![t] = 0]
    /\ embeddings_data' = [embeddings_data EXCEPT ![t] = <<>>]
    /\ error_msg' = [error_msg EXCEPT ![t] = ""]
    /\ stale' = [stale EXCEPT ![t] = FALSE]
    /\ last_progress' = [last_progress EXCEPT ![t] = -1]

\* self._notify_progress(doc_id, 'completed', 100, ...)
Notify100(t) ==
    /\ pc[t] = "notify100"
    /\ Deliver(t, "completed", 100)
    /\ IF callback_error(delivered') # ""
       THEN /\ Raise(t, callback_error(delivered'))
            /\ Track(t)
            /\ UNCHANGED <<job, idx, embeddings_data, stale>>
       ELSE EndRun(t)
    /\ UNCHANGED <<dbvars, job_queue, progress_callbacks, running, max_workers, cunch>>

\* except Exception as e: self.db.update_document_status(doc_id, 'failed', error_msg)
SetFailed(t) ==
    /\ pc[t] = "set_failed"
    /\ documents' = update_document_status(documents, job[t].document_id,
                                           "failed", Some(error_msg[t]))
    /\ pc' = [pc EXCEPT ![t] = "notify_failed"]
    /\ delivered' = NoEvent
    /\ UNCHANGED <<seq_documents, chunks, job_queue, progress_callbacks, running,
                   max_workers, job, idx, embeddings_data, error_msg, stale,
                   last_progress, cunch>>

\* self._notify_progress(doc_id, 'failed', 0, f"Processing failed: {error_msg}");
\* _process_job ends here: whatever this call lets through is caught by the
\* except Exception of _worker_loop, which goes on with the loop as well.
NotifyFailed(t) ==
    /\ pc[t] = "notify_failed"
    /\ Deliver(t, "failed", 0)
    /\ EndRun(t)
    /\ UNCHANGED <<dbvars, job_queue, progress_callbacks, running, max_workers, cunch>>

\* --------------------------------------------------------------- behaviours
Worker(t) ==
    \/ WorkerLoop(t)
    \/ WorkerGet(t)
    \/ SetProcessing(t)
    \/ Notify0(t)
    \/ Notify10Load(t)
    \/ Notify30Chunk(t)
    \/ Notify40(t)
    \/ \E ok \in BOOLEAN : Embed(t, ok)
    \/ Notify90(t)
    \/ \E ok \in BOOLEAN : AddChunks(t, ok)
    \/ SetCompleted(t)
    \/ Notify100(t)
    \/ SetFailed(t)
    \/ NotifyFailed(t)

Caller ==
    \/ \E path \in Paths, cb \in {0, ncalls + 1} : QueueAddDocument(path, cb)
    \/ QueueCheckProcessed
    \/ QueueRegister
    \/ QueuePut
    \/ \E d \in 1..seq_documents : DeleteCallback(d)
    \/ DeleteRows

Lifecycle ==
    \/ StopFlag
    \/ StopPutSentinel
    \/ StopJoin
    \/ Start

Next ==
    \/ Caller
    \/ \E t \in Threads : Worker(t)

Spec == Init /\ [][Next]_vars

\* The processor with stop(): queue_document, delete_document, stop and the
\* workers.  A thread that can take a step eventually takes one (the threads
\* are scheduled by the operating system and every call they make returns),
\* and a call the caller has begun runs to its return; when the caller makes
\* its next call, if ever, is up to the caller.  One worker is given
\* MaxQueueCalls calls to serve, each further worker one call fewer.
StopInit ==
    /\ Constructed
    /\ NoQuestion
    /\ limits = [queue |-> MaxQueueCalls + 1 - max_workers, delete |-> MaxDeletes,
                 stop |-> MaxStops, start |-> 0]

Stop ==
    \/ StopFlag
    \/ StopPutSentinel
    \/ StopJoin

StopNext ==
    \/ Next
    \/ Stop

CallInProgress ==
    \/ QueueCheckProcessed
    \/ QueueRegister
    \/ QueuePut
    \/ DeleteRows
    \/ StopPutSentinel
    \/ StopJoin

FairSpec ==
    /\ StopInit
    /\ [][StopNext]_vars
    /\ \A t \in Threads : WF_vars(Worker(t))
    /\ WF_vars(CallInProgress)

\* The processor with stop() and start(): one queue_document call, deletes,
\* one stop and one start, in any order and at any moment between calls.
LifeInit ==
    /\ Constructed
    /\ NoQuestion
    /\ limits = [queue |-> 1, delete |-> MaxDeletes,
                 stop |-> MaxStops, start |-> MaxStarts]

LifeNext ==
    \/ Next
    \/ Lifecycle

LifeSpec == LifeInit /\ [][LifeNext]_vars

\* ------------------------------------------------------------ the answer chain
\* Texts are represented by their length in characters.  len(encoding.encode(s))
\* is taken as one token per four characters, rounded up: the tokenizer is a
\* library of its own, and the budget only uses its counts.
Encode(chars) == (chars + 3) \div 4

\* config.MAX_CONTEXT_TOKENS, and what __init__ takes off it for the response.
MAX_CONTEXT_TOKENS == 8000
ResponseReserve == 2000
max_context_tokens == MAX_CONTEXT_TOKENS - ResponseReserve

\* Tokens of the system prompts: of generate_answer (the same text is in
\* _limit_context_tokens) and of generate_hybrid_answer, which is longer.
RagPromptTokens == 90
HybridPromptTokens == 150

\* "+ 100" of base_tokens, "- 50" and "> 200" of the truncation branch.
FormattingAllowance == 100
TruncationMargin == 50
MinRemainder == 200

\* len(f"[Chunk {id}] (Similarity: {sim:.3f})") for a one-digit chunk id, and
\* len("... [truncated]").
HeaderChars == 29
MarkerChars == 15

\* while len(encode(text)) > remaining and len(text) > 100:
\*     text = text[:int(len(text) * 0.8)]
RECURSIVE truncate(_, _)
truncate(chars, remaining) ==
    IF Encode(chars) > remaining /\ chars > 100
    THEN truncate((chars * 4) \div 5, remaining)
    ELSE chars

\* The for loop of _limit_context_tokens without its break: a candidate that
\* does not fit is passed over and the ones behind it are still tried.
RECURSIVE limit_loop_no_break(_, _, _, _)
limit_loop_no_break(rest, available_tokens, current_tokens, limited_chunks) ==
    IF rest = <<>> THEN limited_chunks
    ELSE LET chunk == Head(rest)
             chunk_tokens == Encode(HeaderChars + 1 + chunk.chars + 2)
         IN  IF current_tokens + chunk_tokens <= available_tokens
             THEN limit_loop_no_break(Tail(rest), available_tokens,
                                      current_tokens + chunk_tokens,
                                      Append(limited_chunks, chunk))
             ELSE limit_loop_no_break(Tail(rest), available_tokens,
                                      current_tokens, limited_chunks)

\* The for loop of _limit_context_tokens over the chunks not yet looked at.
RECURSIVE limit_loop(_, _, _, _)
limit_loop(rest, available_tokens, current_tokens, limited_chunks) ==
    IF rest = <<>> THEN limited_chunks
    ELSE LET chunk == Head(rest)
             chunk_tokens == Encode(HeaderChars + 1 + chunk.chars + 2)
             remaining_tokens == available_tokens - current_tokens
                                   - Encode(HeaderChars) - TruncationMargin
         IN  IF current_tokens + chunk_tokens <= available_tokens
             THEN limit_loop(Tail(rest), available_tokens,
                             current_tokens + chunk_tokens,
                             Append(limited_chunks, chunk))
             ELSE IF remaining_tokens > MinRemainder
             THEN Append(limited_chunks,
                         [chunk EXCEPT
                            !.chars = truncate(chunk.chars, remaining_tokens)
                                         + MarkerChars,
                            !.truncated = TRUE])
             ELSE limited_chunks

\* _limit_context_tokens(chunks, query)
limit_context_tokens(relevant_chunks, query) ==
    LET base_tokens == RagPromptTokens + Encode(query) + FormattingAllowance
        available_tokens == max_context_tokens - base_tokens
    IN  limit_loop(relevant_chunks, available_tokens, 0, <<>>)

\* len(_build_context(chunks)): "\n".join of header + "\n" + text + "\n"
RECURSIVE context_chars(_)
context_chars(limited_chunks) ==
    IF limited_chunks = <<>> THEN 0
    ELSE HeaderChars + 1 + Head(limited_chunks).chars + 1
           + (IF Tail(limited_chunks) = <<>> THEN 0
              ELSE 1 + context_chars(Tail(limited_chunks)))

\* Questions asked in one behaviour: queries of 10, 100, 5600 and 6000 tokens, and
\* up to MaxCandidates candidates of 200, 1000 or 4000 tokens of text.
MaxCandidates == 3
QueryChars == {40, 400, 22400, 24000}
TextChars == {800, 4000, 16000}
CandidateLists ==
    UNION {[1..n -> TextChars] : n \in 0..MaxCandidates}
Candidates(sizes) ==
    [k \in 1..Len(sizes) |-> [chunk_id |-> k - 1, chars |-> sizes[k],
                              truncated |-> FALSE]]

\* The model argument of a call: None (the default of generate_answer and
\* generate_hybrid_answer) or a name.
Models == {"None", "gpt-4"}

\* What a call that reaches chat.completions.create has sent.
Answer(mode, prompt_tokens) ==
    LET limited == limit_context_tokens(r_chunks, r_query)
    IN  [NoAnswer EXCEPT
           !.mode = mode, !.sent = TRUE, !.limited = limited,
           !.context_tokens = Encode(context_chars(limited)),
           !.instruction_tokens = prompt_tokens + Encode(r_query),
           !.with_context = TRUE]

\* response.usage of a request that the backend answered.
Usage ==
    [prompt_tokens |-> Encode(r_query) + 1, completion_tokens |-> 1,
     total_tokens |-> Encode(r_query) + 2]
NoUsage == [prompt_tokens |-> 0, completion_tokens |-> 0, total_tokens |-> 0]

\* The dicts of generate_answer: of the try block and of the except block.
generate_answer(sent, model, fails) ==
    IF fails
    THEN [answer |-> "Error generating response", model_used |-> model,
          chunks_used |-> 0, context_tokens |-> 0, citations |-> <<>>,
          response_time |-> "elapsed"] @@ NoUsage
    ELSE [answer |-> "content", model_used |-> model,
          chunks_used |-> Len(sent.limited),
          context_tokens |-> sent.context_tokens, citations |-> sent.limited,
          response_time |-> "elapsed"] @@ Usage

\* The dicts of generate_non_rag_answer(query, model).
generate_non_rag_answer(model, fails) ==
    IF fails
    THEN [answer |-> "Error generating response", model_used |-> model,
          response_time |-> "elapsed"] @@ NoUsage
    ELSE [answer |-> "content", model_used |-> model,
          response_time |-> "elapsed"] @@ Usage

\* The request of generate_non_rag_answer: its own system prompt, and the query
\* alone as the user message.
NonRagRequest == [NoAnswer EXCEPT !.mode = "non_rag", !.sent = TRUE]

\* generate_hybrid_answer without the `if not relevant_chunks` branch.
hybrid_empty_packs(model, fails) ==
    [sent |-> Answer("hybrid", HybridPromptTokens),
     result |-> generate_answer(Answer("hybrid", HybridPromptTokens), model, fails)
                   @@ [mode |-> "hybrid"]]

\* if not relevant_chunks: return self.generate_non_rag_answer(query, model)
hybrid_empty(model, fails) ==
    [sent |-> NonRagRequest, result |-> generate_non_rag_answer(model, fails)]

\* answer_question with the `if not relevant_chunks` branch taken as a request.
answer_question_empty_asks(fails) ==
    [sent |-> Answer("rag", RagPromptTokens),
     result |-> generate_answer(Answer("rag", RagPromptTokens), "None", fails)]

\* if not relevant_chunks: return {...} of answer_question
answer_question_empty(fails) ==
    [sent |-> [NoAnswer EXCEPT !.mode = "rag"],
     result |-> [answer |-> "I couldn't find relevant information",
                 model_used |-> "N/A", chunks_used |-> 0, context_tokens |-> 0,
                 citations |-> <<>>]]

\* try: ... except Exception as e: around chat.completions.create, in
\* generate_answer, generate_non_rag_answer and generate_hybrid_answer: the
\* exception that leaves the method.
backend_error(fails) == FALSE

Raised == [exception |-> "Exception"]

\* The call returns: what it sent and the dict it returned (Raised for a call
\* that an exception left).
Return(entry, model, fails, out) ==
    /\ r_answer' = [out.sent EXCEPT !.entry = entry, !.model = model,
                                    !.failed = out.sent.sent /\ fails]
    /\ r_result' = IF out.sent.sent /\ backend_error(fails)
                   THEN Raised ELSE out.result
    /\ UNCHANGED <<r_query, r_chunks, f_args, f_out, k_args, k_out, dbvars, job_queue,
                   progress_callbacks, running, max_workers, wvars, delivered,
                   cvars, counters, last_id>>

\* self.embedder.find_similar_chunks(query, embeddings_df, top_k=...,
\* include_neighbors=...): r_chunks is what it returned; the call's outcome
\* records the include_neighbors it was given.
Retrieving(include_neighbors, out) ==
    [out EXCEPT !.sent.include_neighbors = include_neighbors]

\* len(summary_query), the fixed query of get_document_summary.
SummaryQueryChars == 73

\* context = self._build_context(relevant_chunks): ALL the retrieved chunks.
summary_context == r_chunks

\* get_document_summary(embeddings_df, max_chunks): retrieval without
\* neighbours, the context built of what it returned, one request; the
\* summary text or the error text is returned.
GetDocumentSummary ==
    /\ r_answer = NoAnswer
    /\ \E fails \in BOOLEAN :
         Return("get_document_summary", "None", fails,
                Retrieving(FALSE,
                    [sent |-> [NoAnswer EXCEPT
                                 !.mode = "summary", !.sent = TRUE,
                                 !.limited = summary_context,
                                 !.context_tokens =
                                     Encode(context_chars(summary_context)),
                                 !.with_context = TRUE],
                     result |-> [summary |-> IF fails
                                             THEN "Error generating summary"
                                             ELSE "content"]]))

\* answer_question: no candidates, no request; else generate_answer(query,
\* relevant_chunks), model left at its default.
AnswerQuestion ==
    /\ r_answer = NoAnswer
    /\ \E fails \in BOOLEAN, include_neighbors \in BOOLEAN :
         Return("answer_question", "None", fails,
                Retrieving(include_neighbors,
                    IF r_chunks = <<>>
                    THEN answer_question_empty(fails)
                    ELSE [sent |-> Answer("rag", RagPromptTokens),
                          result |-> generate_answer(
                                        Answer("rag", RagPromptTokens),
                                        "None", fails)]))

\* generate_non_rag_answer(query, model)
GenerateNonRagAnswer ==
    /\ r_answer = NoAnswer
    /\ \E model \in Models, fails \in BOOLEAN :
         Return("generate_non_rag_answer", model, fails,
                [sent |-> NonRagRequest,
                 result |-> generate_non_rag_answer(model, fails)])

\* generate_hybrid_answer: no candidates, generate_non_rag_answer (a request
\* without context); else the same packing with the hybrid prompt.
GenerateHybridAnswer ==
    /\ r_answer = NoAnswer
    /\ \E model \in Models, fails \in BOOLEAN, include_neighbors \in BOOLEAN :
         Return("generate_hybrid_answer", model, fails,
                Retrieving(include_neighbors,
                    IF r_chunks = <<>>
                    THEN hybrid_empty(model, fails)
                    ELSE [sent |-> Answer("hybrid", HybridPromptTokens),
                          result |-> generate_answer(
                                        Answer("hybrid", HybridPromptTokens),
                                        model, fails) @@ [mode |-> "hybrid"]]))

\* One question, with any query and candidate list, asked of a processor
\* that is given no other call.
AnswerInit ==
    /\ Constructed
    /\ max_workers = 1
    /\ limits = [queue |-> 0, delete |-> 0, stop |-> 0, start |-> 0]
    /\ r_query \in QueryChars
    /\ \E sizes \in CandidateLists : r_chunks = Candidates(sizes)
    /\ r_answer = NoAnswer
    /\ r_result = NoResult
    /\ NoRetrieval

AnswerNext ==
    \/ AnswerQuestion
    \/ GenerateNonRagAnswer
    \/ GenerateHybridAnswer
    \/ GetDocumentSummary

AnswerSpec == AnswerInit /\ [][AnswerNext]_vars

\* ---------------------------------------------------------------- retrieval
\* find_similar_chunks(query, embeddings_df, top_k, include_neighbors).  The
\* frame is get_chunks_df's: its rows in ascending chunk_id, at positions
\* 1..n (iloc 0..n-1; the frame's index labels are its positions).  A row is
\* its chunk_id and the cosine similarity of its vector to the query's.
MaxRows == 4           \* rows of embeddings_df; chunk ids are 0..MaxRows
MaxScore == 3          \* similarities are ranked 1..MaxScore
MaxTopK == 2           \* top_k ranges over 1..MaxTopK

RECURSIVE Ascending(_)
Ascending(ids) ==
    IF ids = {} THEN <<>>
    ELSE LET least == CHOOSE i \in ids : \A j \in ids : i <= j
         IN  <<least>> \o Ascending(ids \ {least})

\* The frames: any set of at most MaxRows chunk ids, any similarities.
Frames ==
    UNION {{[k \in 1..Len(Ascending(ids)) |->
                [chunk_id |-> Ascending(ids)[k], similarity |-> sim[k]]] :
            sim \in [1..Cardinality(ids) -> 1..MaxScore]} :
           ids \in {x \in SUBSET (0..MaxRows) : Cardinality(x) <= MaxRows}}

Range(seq) == {seq[i] : i \in 1..Len(seq)}
Reversed(seq) == [i \in 1..Len(seq) |-> seq[Len(seq) + 1 - i]]

\* np.argsort(similarities): the positions in ascending similarity.  The
\* default kind is not a stable sort: equal similarities come in any order.
argsort(df) ==
    {order \in [1..Len(df) -> 1..Len(df)] :
        /\ \A i, j \in 1..Len(df) : i # j => order[i] # order[j]
        /\ \A i, j \in 1..Len(df) :
              i < j => df[order[i]].similarity <= df[order[j]].similarity}

\* [::-1][:top_k]
top(order, top_k) ==
    SubSeq(Reversed(order), 1, IF top_k < Len(order) THEN top_k ELSE Len(order))

\* The rows with chunk_id - 1 or chunk_id + 1 of a row of top_indices.
neighbors(df, top_indices) ==
    {n \in 1..Len(df) :
        \E t \in Range(top_indices) :
            \/ df[n].chunk_id = df[t].chunk_id - 1
            \/ df[n].chunk_id = df[t].chunk_id + 1}

selected_chunks(df, top_indices, include_neighbors) ==
    Range(top_indices)
        \cup (IF include_neighbors THEN neighbors(df, top_indices) ELSE {})

\* for idx in sorted(selected_chunks): results.append({...})
results_of(df, selected) ==
    [k \in 1..Cardinality(selected) |->
        [chunk_id |-> df[Ascending(selected)[k]].chunk_id,
         similarity |-> df[Ascending(selected)[k]].similarity]]

\* sorted(results, key=similarity, reverse=True): a stable sort, every element
\* is placed behind those placed before it that are not smaller.
RECURSIVE insert_sorted(_, _)
insert_sorted(done, r) ==
    IF done = <<>> THEN <<r>>
    ELSE IF Head(done).similarity >= r.similarity
    THEN <<Head(done)>> \o insert_sorted(Tail(done), r)
    ELSE <<r>> \o done

RECURSIVE sorted_by_similarity(_, _)
sorted_by_similarity(done, results) ==
    IF results = <<>> THEN done
    ELSE sorted_by_similarity(insert_sorted(done, Head(results)), Tail(results))

\* What the try block raises: the embeddings request failed, or the frame of
\* a document without chunks has no 'embedding' column.
find_error(args) ==
    IF ~args.embed_ok THEN "embeddings.create"
    ELSE IF args.embeddings_df = <<>> THEN "KeyError"
    ELSE ""

\* find_similar_chunks without its try block.
find_uncaught(err) == err # ""

\* except Exception as e: st.error(...); return []
find_raises(err) == FALSE

FindSimilarChunks ==
    /\ ~f_out.returned
    /\ f_args # NoArgs
    /\ IF find_error(f_args) # ""
       THEN f_out' = [NoOutcome EXCEPT
                        !.returned = TRUE,
                        !.raised = find_raises(find_error(f_args))]
       ELSE \E order \in argsort(f_args.embeddings_df) :
              LET top_indices == top(order, f_args.top_k)
                  selected == selected_chunks(f_args.embeddings_df, top_indices,
                                              f_args.include_neighbors)
              IN  f_out' = [returned |-> TRUE, raised |-> FALSE,
                            top_indices |-> top_indices,
                            results |-> sorted_by_similarity(<<>>,
                               results_of(f_args.embeddings_df, selected))]
    /\ UNCHANGED <<f_args, k_args, k_out, r_query, r_chunks, r_answer, r_result, dbvars,
                   job_queue, progress_callbacks, running, max_workers, wvars,
                   delivered, cvars, counters, last_id>>

\* One retrieval, with any frame and arguments, asked beside a processor that
\* is given no call.
RetrieveInit ==
    /\ Constructed
    /\ max_workers = 1
    /\ limits = [queue |-> 0, delete |-> 0, stop |-> 0, start |-> 0]
    /\ r_query = 0
    /\ r_chunks = <<>>
    /\ r_answer = NoAnswer
    /\ r_result = NoResult
    /\ f_args \in [embed_ok : BOOLEAN, embeddings_df : Frames,
                   top_k : 1..MaxTopK, include_neighbors : BOOLEAN]
    /\ f_out = NoOutcome
    /\ k_args = NoText
    /\ k_out = NotChunked

RetrieveNext == FindSimilarChunks

RetrieveSpec == RetrieveInit /\ [][RetrieveNext]_vars

\* ------------------------------------------------------------------ chunker
\* chunk_text(text, chunk_size, overlap).  A text is the sequence of the
\* pieces text.split('. ') gives (the empty text is one empty piece); a piece
\* is its token count and whether it is empty or white space.  current_chunk
\* is the sequence of the pieces in it, each of them followed by '. '.
MaxSentences == 3      \* pieces of a text
CHUNK_SIZE == 1000
CHUNK_OVERLAP == 200
SentencesPerOverlap == 50

EmptyPiece == [tokens |-> 0, blank |-> TRUE]
Pieces == {EmptyPiece, [tokens |-> 1, blank |-> TRUE],
           [tokens |-> 2, blank |-> FALSE], [tokens |-> 4, blank |-> FALSE],
           [tokens |-> 7, blank |-> FALSE]}
\* chunk_size and overlap as given: 0 stands for None (and for 0, which
\* `x or default` treats alike).
ChunkSizes == {0, 6}
Overlaps == {0, 50, 100}

RECURSIVE SumTokens(_)
SumTokens(pieces) ==
    IF pieces = <<>> THEN 0
    ELSE Head(pieces).tokens + SumTokens(Tail(pieces))

\* len(encoding.encode(current_chunk)): the tokens of the pieces and one for
\* each '. ' behind a piece.
encode_chunk(pieces) == SumTokens(pieces) + Len(pieces)

\* current_chunk.split('. '): the pieces and the empty string behind the
\* last '. '.
split(pieces) == Append(pieces, EmptyPiece)

\* current_chunk.split('. ')[-max(1, overlap // 50):]
overlap_sentences(pieces, overlap) ==
    LET n == IF overlap \div SentencesPerOverlap > 1
             THEN overlap \div SentencesPerOverlap ELSE 1
        all == split(pieces)
    IN  IF n >= Len(all) THEN all
        ELSE SubSeq(all, Len(all) - n + 1, Len(all))

\* The for loop from sentence i (counted from 0 as enumerate does), and the
\* final append behind it.
RECURSIVE chunk_loop(_, _, _, _, _, _, _)
chunk_loop(sentences, i, chunk_size, overlap, made, current_chunk, current_tokens) ==
    IF i = Len(sentences)
    THEN IF current_chunk # <<>>
         THEN Append(made,
                     [chunk_id |-> Len(made), text |-> current_chunk,
                      token_count |-> current_tokens,
                      start_sentence |-> Len(sentences) - Len(split(current_chunk)),
                      end_sentence |-> Len(sentences) - 1])
         ELSE made
    ELSE LET sentence == sentences[i + 1]
             sentence_tokens == sentence.tokens
         IN  IF current_tokens + sentence_tokens > chunk_size /\ current_chunk # <<>>
             THEN chunk_loop(sentences, i + 1, chunk_size, overlap,
                     Append(made,
                        [chunk_id |-> Len(made), text |-> current_chunk,
                         token_count |-> current_tokens,
                         start_sentence |-> i - Len(split(current_chunk)) + 1,
                         end_sentence |-> i - 1]),
                     Append(overlap_sentences(current_chunk, overlap), sentence),
                     encode_chunk(Append(overlap_sentences(current_chunk, overlap),
                                         sentence)))
             ELSE chunk_loop(sentences, i + 1, chunk_size, overlap, made,
                             Append(current_chunk, sentence),
                             current_tokens + sentence_tokens)

\* chunk_size = chunk_size or self.chunk_size; overlap = overlap or self.overlap
chunk_text_of(sentences, chunk_size, overlap) ==
    chunk_loop(sentences, 0,
               IF chunk_size = 0 THEN CHUNK_SIZE ELSE chunk_size,
               IF overlap = 0 THEN CHUNK_OVERLAP ELSE overlap,
               <<>>, <<>>, 0)

ChunkText ==
    /\ ~k_out.returned
    /\ k_args # NoText
    /\ k_out' = [returned |-> TRUE,
                 chunks |-> chunk_text_of(k_args.sentences, k_args.chunk_size,
                                          k_args.overlap)]
    /\ UNCHANGED <<k_args, f_args, f_out, r_query, r_chunks, r_answer, r_result,
                   dbvars, job_queue, progress_callbacks, running, max_workers,
                   wvars, delivered, cvars, counters, last_id>>

\* One text, with any pieces and arguments, chunked beside a processor that is
\* given no call.
ChunkInit ==
    /\ Constructed
    /\ max_workers = 1
    /\ limits = [queue |-> 0, delete |-> 0, stop |-> 0, start |-> 0]
    /\ r_query = 0
    /\ r_chunks = <<>>
    /\ r_answer = NoAnswer
    /\ r_result = NoResult
    /\ f_args = NoArgs
    /\ f_out = NoOutcome
    /\ k_args \in [sentences : UNION {[1..n -> Pieces] : n \in 1..MaxSentences},
                   chunk_size : ChunkSizes, overlap : Overlaps]
    /\ k_out = NotChunked

ChunkNext == ChunkText

ChunkSpec == ChunkInit /\ [][ChunkNext]_vars

\* ------------------------------------------------------------------ helpers
Status(d) == documents[d].status
Terminal == {"completed", "failed"}
ChunkIds(rows) == {rows[i].chunk_id : i \in 1..Len(rows)}
InQueueDocument == cpc \in {"q_check", "q_register", "q_put"}
Busy == {t \in Threads : job[t] # NoJob}

\* ------------------------------------------------------------------- claims
\* C1: a document's persisted status only ever changes pending -> processing,
\* processing -> completed or processing -> failed; completed and failed are
\* never left.  (Ids are never reused, so a row present before and after a
\* step is the same document.)
C1_StatusTransitions ==
    [][\A d \in DocIds :
          (Exists(documents, d) /\ Exists(documents', d)
             /\ documents'[d].status # documents[d].status)
          => <<documents[d].status, documents'[d].status>> \in
                {<<"pending", "processing">>, <<"processing", "completed">>,
                 <<"processing", "failed">>}]_vars

\* C2: a queue_document call on bytes that an earlier call was given, with no
\* delete of that document since, gets the id the earlier call returned; the
\* store holds exactly one documents row for the fingerprint of the bytes being
\* queued, no two rows share a fingerprint, and no two chunks rows share
\* (document_id, chunk_id).
C2_Idempotent ==
    /\ InQueueDocument =>
          /\ last_id[Content(c_path)] # 0 => c_doc_id = last_id[Content(c_path)]
          /\ Cardinality({d \in DocIds : Exists(documents, d)
                            /\ documents[d].file_hash = get_file_hash(c_path)}) = 1
    /\ \A d1, d2 \in DocIds :
          (Exists(documents, d1) /\ Exists(documents, d2)
             /\ documents[d1].file_hash = documents[d2].file_hash) => d1 = d2
    /\ \A i, j \in 1..Len(chunks) :
          (chunks[i].document_id = chunks[j].document_id
             /\ chunks[i].chunk_id = chunks[j].chunk_id) => i = j

\* C2 witness: the same bytes are queued again, from another path, while the
\* document they resolved to already has chunks; the call got the same id.
C2_Witness ==
    /\ cpc = "q_check"
    /\ last_id[Content(c_path)] = c_doc_id
    /\ Exists(documents, c_doc_id)
    /\ documents[c_doc_id].original_path # c_path
    /\ RowsOf(chunks, c_doc_id) # <<>>

\* C3: a documents row whose status is completed has at least one chunks row.
C3_CompletedHasChunks ==
    \A d \in DocIds :
        (Exists(documents, d) /\ Status(d) = "completed") => RowsOf(chunks, d) # <<>>

\* C3 witness: a completed document after a delete_document call has run
\* and while a worker is again at work on a job for that document.
C3_Witness ==
    \E d \in DocIds : \E t \in Threads :
        /\ Status(d) = "completed"
        /\ ndeletes = 1 /\ cpc = "idle"
        /\ job[t].document_id = d

\* C4: a documents row whose status is failed has a non-null error_message.
C4_FailedHasError ==
    \A d \in DocIds :
        (Exists(documents, d) /\ Status(d) = "failed")
            => documents[d].error_message # Null

\* C4 witness: a failed document, its error the one of the embedding loop.
C4_Witness ==
    \E d \in DocIds :
        /\ Status(d) = "failed"
        /\ documents[d].error_message = Some("Failed to generate any embeddings")

\* C5: a worker whose job's document was deleted before the job was dequeued
\* does nothing for it: it issues no embedding call, goes no further into the
\* pipeline, and no chunks row with that document id exists.
C5_DeletedJobIsNoOp ==
    \A t \in Threads :
        stale[t] =>
            /\ pc[t] \notin {"embed", "notify90", "add_chunks", "set_completed",
                             "notify100"}
            /\ RowsOf(chunks, job[t].document_id) = <<>>
            /\ ~Exists(documents, job[t].document_id)

\* C6: no two workers hold jobs for the same document id at the same time, so
\* no two embedding calls for one document are in flight together.
C6_OneWorkerPerDocument ==
    \A t1, t2 \in Threads :
        (t1 # t2 /\ job[t1] # NoJob /\ job[t2] # NoJob)
            => job[t1].document_id # job[t2].document_id

C8_FailureHandled ==
    /\ [][\A t \in Threads :
            /\ (error_msg'[t] # error_msg[t] /\ error_msg'[t] # "")
                  => (pc'[t] = "set_failed" /\ job'[t] = job[t])
            /\ (pc[t] = "set_failed" /\ pc'[t] # pc[t])
                  => /\ pc'[t] = "notify_failed"
                     /\ Exists(documents, job[t].document_id)
                          => /\ documents'[job[t].document_id].status = "failed"
                             /\ documents'[job[t].document_id].error_message
                                   = Some(error_msg[t])
            /\ (pc[t] = "notify_failed" /\ pc'[t] # pc[t])
                  => (pc'[t] = "loop" /\ job'[t] = NoJob)]_vars
    /\ [](running => \A t \in 1..max_workers : pc[t] # "exited")

\* C8 witness: the only worker has failed one document (add_chunks raised) and
\* is now in the embedding loop of the next job, for another document.
C8_Witness ==
    /\ max_workers = 1
    /\ pc[1] = "embed"
    /\ \E d \in DocIds :
          /\ Status(d) = "failed"
          /\ documents[d].error_message = Some("add_chunks raised")
          /\ job[1].document_id # d

\* C9: a run persists chunks and ends completed exactly when an embedding call
\* succeeded, and then the chunks rows of the document are exactly the chunks
\* embedded in that run; a run in which every call failed persists nothing.
C9_RunPersistsItsChunks ==
    [][\A t \in Threads :
          /\ (pc[t] = "add_chunks" /\ pc'[t] = "set_completed")
                => ChunkIds(RowsOf(chunks', job[t].document_id))
                      = ChunkIds(embeddings_data[t])
          /\ (pc[t] = "embed" /\ pc'[t] = "set_failed")
                => (embeddings_data'[t] = <<>> /\ chunks' = chunks)
          /\ (pc[t] = "embed" /\ pc'[t] = "notify90")
                => embeddings_data'[t] # <<>>]_vars

\* C10: for every document, get_chunks_df returns rows whose chunk ids are
\* exactly 0, 1, ..., N-1 in this order, N the number of rows returned.
C10_ContiguousChunkIds ==
    \A d \in DocIds :
        LET df == get_chunks_df(chunks, d)
        IN  Exists(documents, d) => \A i \in 1..Len(df) : df[i].chunk_id = i - 1

\* C11: every chunks row's document_id is the id of an existing documents
\* row, whatever jobs for a deleted document are queued or in progress.
C11_NoOrphanChunks ==
    \A i \in 1..Len(chunks) : Exists(documents, chunks[i].document_id)

C13_AddExistingWritesNothing ==
    [][\A d \in DocIds :
          (cpc = "idle" /\ cpc' = "q_check"
             /\ Exists(documents, d)
             /\ documents[d].file_hash = get_file_hash(c_path'))
          => /\ c_doc_id' = d
             /\ documents' = documents
             /\ seq_documents' = seq_documents
             /\ chunks' = chunks]_vars

\* C13 witness: add_document has just returned the id of a failed document
\* for a second call on its bytes, made from another path.
C13_Witness ==
    /\ cpc = "q_check"
    /\ ncalls = 2 /\ seq_documents = 1
    /\ Status(c_doc_id) = "failed"
    /\ documents[c_doc_id].error_message # Null
    /\ documents[c_doc_id].original_path # c_path

\* C14: add_chunks is all or nothing.  A call that returns has stored every
\* chunk of its batch under the document id and set total_chunks to the
\* number of chunks rows of the document; a call that raises leaves both
\* tables as they were.  In every state a non-null total_chunks is the
\* number of chunks rows of its document.
C14_AddChunksAtomic ==
    /\ [](\A d \in DocIds :
            (Exists(documents, d) /\ documents[d].total_chunks # Null)
                => documents[d].total_chunks = Some(CountChunks(chunks, d)))
    /\ [][\A t \in Threads :
            /\ (pc[t] = "add_chunks" /\ pc'[t] = "set_completed")
                  => /\ \A k \in 1..Len(embeddings_data[t]) :
                          \E i \in 1..Len(chunks') :
                              chunks'[i] =
                                 [document_id |-> job[t].document_id,
                                  chunk_id |-> embeddings_data[t][k].chunk_id,
                                  text |-> embeddings_data[t][k].text,
                                  embedding |-> embeddings_data[t][k].embedding]
                     /\ Exists(documents, job[t].document_id)
                          => documents'[job[t].document_id].total_chunks
                                = Some(CountChunks(chunks', job[t].document_id))
            /\ (pc[t] = "add_chunks" /\ pc'[t] = "set_failed")
                  => (chunks' = chunks /\ documents' = documents)]_vars

\* C14 witness: an add_chunks call has raised for a document that holds the
\* two chunks rows of earlier calls, its total_chunks being 2.
C14_Witness ==
    \E t \in Threads :
        /\ pc[t] = "set_failed"
        /\ error_msg[t] = "add_chunks raised"
        /\ Exists(documents, job[t].document_id)
        /\ documents[job[t].document_id].total_chunks = Some(2)
        /\ CountChunks(chunks, job[t].document_id) = 2

\* C15: within one processing run every progress event delivered carries a
\* percentage in 0..100 that is not below the percentage delivered before it
\* in that run, whether the run ends completed or failed.
C15_ProgressNonDecreasing ==
    [][\A t \in Threads :
          (delivered' # NoEvent /\ (pc'[t] # pc[t] \/ idx'[t] # idx[t]))
          => /\ delivered'.progress \in 0..100
             /\ delivered'.progress >= last_progress[t]]_vars

\* The position a run reaches from p when the step at p raises nothing.
NextPosition(p) ==
    CASE p = "notify0" -> {"notify10"}
      [] p = "notify10" -> {"notify30"}
      [] p = "notify30" -> {"notify40"}
      [] p = "notify40" -> {"embed"}
      [] p = "embed" -> {"embed", "notify90"}
      [] p = "notify90" -> {"add_chunks"}
      [] p = "notify100" -> {"loop"}
      [] p = "notify_failed" -> {"loop"}
      [] OTHER -> {}

\* What the code that follows the notification of position p may raise.
RaisedAt(p) ==
    CASE p = "notify10" -> {"No such file or directory",
                            "Failed to extract text from PDF"}
      [] p = "notify30" -> {"chunk_text raised"}
      [] OTHER -> {}

\* C16: an observer that raises changes nothing but the delivery itself.  The
\* step of a worker that delivers an event whose observer raised writes
\* neither table, raises nothing but what the code of that step raises
\* itself, and otherwise moves the run to the position the code reaches when
\* the observer returns; the thread does not end.  The call queue_document
\* makes to the observer it was given writes nothing either.
C16_ObserverErrorsSwallowed ==
    [][/\ \A t \in Threads :
            (delivered'.threw /\ (pc'[t] # pc[t] \/ idx'[t] # idx[t]))
            => /\ documents' = documents /\ chunks' = chunks
               /\ \/ pc'[t] \in NextPosition(pc[t])
                  \/ pc'[t] = "set_failed" /\ error_msg'[t] \in RaisedAt(pc[t])
       /\ (delivered'.threw /\ cpc' # cpc)
            => /\ documents' = documents /\ chunks' = chunks
               /\ job_queue' = job_queue
               /\ progress_callbacks' = progress_callbacks]_vars

\* C16 witness: a run has ended with its document completed and all its
\* chunks stored although the registered observer raised on "completed, 100";
\* the worker is back at the top of its loop.
C16_Witness ==
    \E t \in Threads :
        /\ pc[t] = "loop"
        /\ delivered.threw
        /\ delivered.status = "completed"
        /\ delivered.observer = progress_callbacks[delivered.doc_id]
        /\ Status(delivered.doc_id) = "completed"
        /\ CountChunks(chunks, delivered.doc_id) = MaxChunks

\* C17: every event a worker delivers goes to the observer registered for
\* the document id at that moment, from a thread that holds a job for that
\* id and that moves on in the same step (so no milestone of a run is
\* delivered twice); and once delete_document(id) has returned the registry
\* has no entry for id and no event for id is delivered, whatever jobs for id
\* are queued or in progress.
C17_DeliveryToRegisteredOnly ==
    /\ [](\A d \in 1..seq_documents :
            (~Exists(documents, d) /\ ~(cpc = "d_db" /\ c_doc_id = d))
                => (progress_callbacks[d] = 0 /\ delivered.doc_id # d))
    /\ [][(delivered' # NoEvent /\ cpc' = cpc)
            => /\ delivered'.observer # 0
               /\ delivered'.observer = progress_callbacks[delivered'.doc_id]
               /\ \E t \in Threads :
                     /\ job[t].document_id = delivered'.doc_id
                     /\ (pc'[t] # pc[t] \/ idx'[t] # idx[t])]_vars

\* C17 witness: delete_document has returned for a document whose job is in
\* progress; the run delivered "0" before the delete and has since passed
\* its next milestone without a delivery.
C17_Witness ==
    \E t \in Threads :
        /\ cpc = "idle" /\ ndeletes = 1
        /\ job[t] # NoJob
        /\ ~Exists(documents, job[t].document_id)
        /\ pc[t] = "notify30"
        /\ last_progress[t] = 0
        /\ delivered = NoEvent

\* C18: once stop has set the flag, a worker that holds a job gives it up
\* only at the end of its run (no preemption), the steps that set the final
\* status leave the document, if its row exists, completed or failed, a
\* worker that comes back to the top of its loop leaves the loop instead of
\* taking another job, and eventually every worker thread has exited.
C18_StopFinishesCurrentJob ==
    /\ [][\A t \in Threads :
            /\ (~running /\ job[t] # NoJob /\ job'[t] # job[t])
                  => /\ pc[t] \in {"notify100", "notify_failed"}
                     /\ job'[t] = NoJob
                     /\ pc'[t] = "loop"
            /\ (~running /\ pc[t] \in {"set_completed", "set_failed"}
                  /\ pc'[t] # pc[t] /\ Exists(documents, job[t].document_id))
                  => documents'[job[t].document_id].status \in Terminal
            /\ (~running /\ pc[t] = "loop" /\ pc'[t] # pc[t])
                  => pc'[t] = "exited"]_vars
    /\ (~running) ~> (\A t \in Threads : pc[t] \in {"unborn", "exited"})

\* C18 witness: stop has set the flag, a worker is at the end of a run whose
\* document is completed, and another job is still waiting in the queue.
C18_Witness ==
    \E t \in Threads :
        /\ ~running
        /\ pc[t] = "notify100"
        /\ Exists(documents, job[t].document_id)
        /\ Status(job[t].document_id) = "completed"
        /\ \E i \in 1..Len(job_queue) : job_queue[i] # Sentinel

\* C19: with two workers on two documents, every chunks row of an existing
\* document carries text of that document's own bytes and the vector of that
\* text, add_chunks for one document leaves the rows of every other document
\* as they are, and the run that stored its chunks sets its own document
\* completed.
C19_NoCrossDocumentChunks ==
    /\ [](\A i \in 1..Len(chunks) :
            Exists(documents, chunks[i].document_id)
            => /\ \E p \in Paths :
                     /\ Content(p) = chunks[i].text[1]
                     /\ get_file_hash(p) = documents[chunks[i].document_id].file_hash
               /\ chunks[i].embedding = embeddings_create(chunks[i].text))
    /\ [][\A t \in Threads :
            /\ (pc[t] = "add_chunks" /\ pc'[t] # pc[t])
                  => \A d \in DocIds :
                        d # job[t].document_id
                           => RowsOf(chunks', d) = RowsOf(chunks, d)
            /\ (pc[t] = "set_completed" /\ pc'[t] # pc[t]
                  /\ Exists(documents, job[t].document_id))
                  => documents'[job[t].document_id].status = "completed"]_vars

\* C19 witness: two workers are each at the end of a run, for two different
\* documents, both completed, each with the chunks of its own text.
C19_Witness ==
    /\ max_workers = 2
    /\ pc[1] = "notify100" /\ pc[2] = "notify100"
    /\ job[1].document_id # job[2].document_id
    /\ Status(job[1].document_id) = "completed"
    /\ Status(job[2].document_id) = "completed"
    /\ CountChunks(chunks, job[1].document_id)
          = NumChunks(Content(job[1].file_path))
    /\ CountChunks(chunks, job[2].document_id)
          = NumChunks(Content(job[2].file_path))

\* C20: for every request sent with a context, in the retrieval-grounded and
\* in the hybrid mode, the tokens of the context, the response reserve and
\* the tokens of the system prompt and query sent add up to at most
\* MAX_CONTEXT_TOKENS.
C20_TokenBudget ==
    (r_answer.sent /\ r_answer.mode \in {"rag", "hybrid"})
        => r_answer.context_tokens + ResponseReserve + r_answer.instruction_tokens
              <= MAX_CONTEXT_TOKENS

\* C21: when retrieval returned an empty sequence, the retrieval-grounded mode
\* (answer_question) returns the insufficient-information answer with zero
\* chunks used and sends no request to the generation backend.
C21_EmptyRetrievalNoCall ==
    (r_answer.entry = "answer_question" /\ r_chunks = <<>>)
        => /\ ~r_answer.sent
           /\ r_result.answer = "I couldn't find relevant information"
           /\ r_result.chunks_used = 0
           /\ r_result.citations = <<>>

C21_Witness ==
    /\ r_answer.entry = "answer_question"
    /\ r_chunks = <<>>
    /\ r_result.chunks_used = 0

\* C22: when retrieval returned an empty sequence, the hybrid mode does what the
\* generation-only mode does on the same query and model: one request, with the
\* generation-only prompt and no document context, whose outcome it returns.
C22_HybridDegradesToNonRag ==
    (r_answer.entry = "generate_hybrid_answer" /\ r_chunks = <<>>)
        => /\ r_answer.sent
           /\ r_answer.mode = "non_rag"
           /\ ~r_answer.with_context
           /\ r_answer.context_tokens = 0
           /\ r_result = generate_non_rag_answer(r_answer.model, r_answer.failed)

C22_Witness ==
    /\ r_answer.entry = "generate_hybrid_answer"
    /\ r_chunks = <<>>
    /\ r_answer.sent
    /\ r_result.answer = "content"

\* The three answer modes, by the method that is called.
AnswerModes ==
    {"answer_question", "generate_non_rag_answer", "generate_hybrid_answer"}

\* Helper of C23: the result carries the field, with the value zero.
Zero(result, field) ==
    /\ field \in DOMAIN result
    /\ result[field] = 0

\* C23: in each of the three modes a failure of the generation backend does not
\* leave the call as an exception: the result's answer is the error message and
\* its chunk count, context token count, cited chunks and prompt, completion
\* and total token counts are zero or empty.
C23_BackendFailureZeroed ==
    (r_answer.failed /\ r_answer.entry \in AnswerModes)
        => /\ "exception" \notin DOMAIN r_result
           /\ r_result.answer = "Error generating response"
           /\ \A field \in {"chunks_used", "context_tokens", "prompt_tokens",
                            "completion_tokens", "total_tokens"} :
                 Zero(r_result, field)
           /\ "citations" \in DOMAIN r_result
           /\ r_result.citations = <<>>

\* The nine fields of the uniform metrics output.
NineFields ==
    {"answer", "model_used", "chunks_used", "context_tokens", "citations",
     "response_time", "prompt_tokens", "completion_tokens", "total_tokens"}

\* C24: every result a mode returns, on every path (successful generation,
\* empty retrieval, backend failure), carries all nine fields.
C24_NineFields ==
    r_answer.entry \in AnswerModes => NineFields \subseteq DOMAIN r_result

\* C25: find_similar_chunks returns an empty list and raises nothing when the
\* document has no embedded chunks (an empty frame) and when the request for
\* the query's embedding fails.
C25_RetrieveEmptyOnFailure ==
    (f_out.returned /\ (f_args.embeddings_df = <<>> \/ ~f_args.embed_ok))
        => /\ ~f_out.raised
           /\ f_out.results = <<>>

C25_Witness ==
    /\ f_out.returned
    /\ ~f_args.embed_ok
    /\ f_args.embeddings_df # <<>>
    /\ f_out.results = <<>>

C25_WitnessNoChunks ==
    /\ f_out.returned
    /\ f_args.embed_ok
    /\ f_args.embeddings_df = <<>>
    /\ f_out.results = <<>>

\* Helpers of C29 and C30: the positions of the K rows with the highest
\* similarities, equal similarities going to the lower chunk id; and those
\* positions together with the rows one chunk id before or after them.
HighestK(df, k) ==
    {i \in 1..Len(df) :
        Cardinality({j \in 1..Len(df) :
            \/ df[j].similarity > df[i].similarity
            \/ /\ df[j].similarity = df[i].similarity
               /\ df[j].chunk_id < df[i].chunk_id}) < k}

WithAdjacent(df, rows) ==
    rows \cup {n \in 1..Len(df) :
                 \E i \in rows : df[n].chunk_id \in {df[i].chunk_id - 1,
                                                     df[i].chunk_id + 1}}

Retrieved == f_out.returned /\ find_error(f_args) = ""

\* C29: the top-K of find_similar_chunks are exactly the K chunks with the
\* highest similarities, and of chunks with equal similarity at the cut-off the
\* one with the lower sequence index is taken.
C29_TopKLowerIndexFirst ==
    Retrieved
        => Range(f_out.top_indices) = HighestK(f_args.embeddings_df, f_args.top_k)

\* C30: with include_neighbors the result is exactly the top-K chunks and the
\* existing chunks one index before or after a top-K chunk, each once and with
\* its own similarity, none further away, sorted by descending similarity and,
\* for equal similarities, ascending index.
C30_NeighborsResult ==
    (Retrieved /\ f_args.include_neighbors)
        => LET df == f_args.embeddings_df
               res == f_out.results
               want == WithAdjacent(df, HighestK(df, f_args.top_k))
           IN  /\ {res[k].chunk_id : k \in 1..Len(res)}
                     = {df[i].chunk_id : i \in want}
               /\ Len(res) = Cardinality(want)
               /\ \A k \in 1..Len(res) : \E i \in want :
                     /\ df[i].chunk_id = res[k].chunk_id
                     /\ df[i].similarity = res[k].similarity
               /\ \A k, l \in 1..Len(res) :
                     k < l => \/ res[k].similarity > res[l].similarity
                              \/ /\ res[k].similarity = res[l].similarity
                                 /\ res[k].chunk_id < res[l].chunk_id

\* C26: chunk_text returns no chunk, and no error, for a text that is empty or
\* only white space.
C26_BlankTextNoChunks ==
    (k_out.returned /\ Len(k_args.sentences) = 1 /\ k_args.sentences[1].blank)
        => k_out.chunks = <<>>

\* Helpers of C27: the sentences of a chunk, and the limit the call applied.
SentencesOf(chunk) == SelectSeq(chunk.text, LAMBDA piece : ~piece.blank)
MaxTokens == IF k_args.chunk_size = 0 THEN CHUNK_SIZE ELSE k_args.chunk_size

\* C27: every chunk of chunk_text has at most maxTokens tokens or is exactly
\* one sentence: only a sentence longer than maxTokens, emitted as a chunk of
\* its own, exceeds the limit.
C27_OversizeOnlySingleSentence ==
    k_out.returned
        => \A k \in 1..Len(k_out.chunks) :
              \/ k_out.chunks[k].token_count <= MaxTokens
              \/ /\ Len(SentencesOf(k_out.chunks[k])) = 1
                 /\ SentencesOf(k_out.chunks[k])[1].tokens > MaxTokens

\* C28: jobs are dequeued in the order they were enqueued.  The queue changes
\* only by a put at its end or by a get of its head, which a worker without a
\* job takes as its job; and with a single worker a document enters status
\* processing only as the job that worker dequeued, so that documents enter
\* processing in the order of their queue_document calls.
C28_FifoDequeue ==
    [][/\ job_queue' # job_queue
          => \/ /\ Len(job_queue') = Len(job_queue) + 1
                /\ SubSeq(job_queue', 1, Len(job_queue)) = job_queue
                /\ job' = job
             \/ /\ job_queue # <<>>
                /\ job_queue' = Tail(job_queue)
                /\ \E t \in Threads :
                      /\ job[t] = NoJob
                      /\ job' = [job EXCEPT ![t] = Head(job_queue)]
       /\ \A d \in DocIds :
             (max_workers = 1 /\ documents[d].status # "processing"
                 /\ documents'[d].status = "processing")
                => job[1].document_id = d /\ job' = job]_vars

\* The single worker has taken the job of document 1, queued first, and has
\* set it to processing while the job of document 2 waits in the queue.
C28_Witness ==
    /\ max_workers = 1
    /\ job[1].document_id = 1
    /\ documents[1].status = "processing"
    /\ Len(job_queue) = 1
    /\ job_queue[1].document_id = 2

\* Helpers of C31: a request that carries a packed context, the budget the
\* packing had, and the tokens of candidates taken whole.
Packed ==
    r_answer.sent /\ r_answer.with_context /\ r_answer.mode \in {"rag", "hybrid"}
PackBudget ==
    max_context_tokens - (RagPromptTokens + Encode(r_query) + FormattingAllowance)
RECURSIVE WholeTokens(_)
WholeTokens(candidates) ==
    IF candidates = <<>> THEN 0
    ELSE Encode(HeaderChars + 1 + Head(candidates).chars + 2)
           + WholeTokens(Tail(candidates))
Whole ==
    IF r_answer.limited # <<>> /\ r_answer.limited[Len(r_answer.limited)].truncated
    THEN Len(r_answer.limited) - 1
    ELSE Len(r_answer.limited)

\* C31: the packed context is a prefix of the candidates in their given order,
\* optionally followed by one truncated copy of the next candidate.  Packing
\* stops at the first candidate that does not fit whole; at most one packed
\* chunk is truncated, the last one, and it is marked; and a candidate is
\* truncated only when the remaining budget exceeds the minimum remainder.
C31_PackedPrefix ==
    Packed
        => /\ Len(r_answer.limited) <= Len(r_chunks)
           /\ \A k \in 1..Whole : r_answer.limited[k] = r_chunks[k]
           /\ \A k \in 1..Len(r_answer.limited) :
                 r_answer.limited[k].truncated => k = Len(r_answer.limited)
           /\ \A k \in 1..Whole :
                 WholeTokens(SubSeq(r_chunks, 1, k)) <= PackBudget
           /\ Whole < Len(r_chunks)
                 => WholeTokens(SubSeq(r_chunks, 1, Whole + 1)) > PackBudget
           /\ Whole < Len(r_answer.limited)
                 => /\ r_answer.limited[Whole + 1].chunk_id
                          = r_chunks[Whole + 1].chunk_id
                    /\ r_answer.limited[Whole + 1].chars
                          < r_chunks[Whole + 1].chars
                    /\ PackBudget - WholeTokens(SubSeq(r_chunks, 1, Whole))
                          - Encode(HeaderChars) - TruncationMargin > MinRemainder

\* Two candidates were packed whole and the third truncated.
C31_Witness ==
    /\ Packed
    /\ Len(r_answer.limited) = 3
    /\ Whole = 2
    /\ r_answer.limited[3].truncated

\* Packing stopped at a candidate that did not fit, without truncating it,
\* behind one that was packed whole.
C31_WitnessStop ==
    /\ Packed
    /\ Whole = 1
    /\ Len(r_answer.limited) = 1
    /\ Len(r_chunks) > 1

\* C32: get_document_summary packs the chunks it retrieved within the token
\* budget, as the retrieval-grounded mode does: the context it sends is the
\* budgeted packing of the retrieved chunks and never exceeds the context
\* budget, however many and however long the chunks are; and it retrieves
\* without neighbor expansion.
C32_SummaryWithinBudget ==
    r_answer.entry = "get_document_summary"
        => /\ ~r_answer.include_neighbors
           /\ r_answer.limited = limit_context_tokens(r_chunks, SummaryQueryChars)
           /\ r_answer.context_tokens <= max_context_tokens

\* Helpers of C33 and C34: the text has no empty or blank piece; the number of
\* overlap sentences for the overlap the call applied; the last n of a
\* sequence.
PlainText == \A i \in 1..Len(k_args.sentences) : ~k_args.sentences[i].blank
OverlapCount ==
    LET overlap == IF k_args.overlap = 0 THEN CHUNK_OVERLAP ELSE k_args.overlap
    IN  IF overlap \div SentencesPerOverlap > 1
        THEN overlap \div SentencesPerOverlap ELSE 1
LastOf(seq, n) ==
    IF n >= Len(seq) THEN seq ELSE SubSeq(seq, Len(seq) - n + 1, Len(seq))

\* C33: whenever chunk_text closes a chunk because the next sentence does not
\* fit, the next chunk begins with the last max(1, overlap // 50) complete
\* sentences of the closed chunk (all of them if it has fewer; at least one),
\* followed by the sentence that did not fit.
C33_OverlapSentences ==
    (k_out.returned /\ PlainText)
        => \A k \in 1..(Len(k_out.chunks) - 1) :
              LET closed == SentencesOf(k_out.chunks[k])
                  next == SentencesOf(k_out.chunks[k + 1])
                  seed == LastOf(closed, OverlapCount)
              IN  /\ Len(seed) >= 1
                  /\ Len(next) >= Len(seed) + 1
                  /\ SubSeq(next, 1, Len(seed)) = seed
                  /\ next[Len(seed) + 1]
                        = k_args.sentences[k_out.chunks[k].end_sentence + 2]

\* C34: for every chunk of chunk_text, 0 <= start_sentence <= end_sentence <=
\* number of sentences - 1, and the sentences start_sentence..end_sentence of
\* the text are exactly the sentences in the chunk's text.
C34_SentenceRange ==
    (k_out.returned /\ PlainText)
        => \A k \in 1..Len(k_out.chunks) :
              LET c == k_out.chunks[k]
              IN  /\ 0 <= c.start_sentence
                  /\ c.start_sentence <= c.end_sentence
                  /\ c.end_sentence <= Len(k_args.sentences) - 1
                  /\ SentencesOf(c) = SubSeq(k_args.sentences,
                                             c.start_sentence + 1,
                                             c.end_sentence + 1)

\* The worker threads that are alive: started and not yet returned from
\* _worker_loop.
LiveWorkers == {t \in Threads : pc[t] \notin {"unborn", "exited"}}

\* C35: after any sequence of start and stop calls, whenever the processor is
\* running and no stop or start is under way, exactly max_workers workers are
\* alive to consume jobs: never more, and never fewer because a worker took a
\* stop sentinel that an earlier stop left in the queue.
C35_WorkerCount ==
    (running /\ cpc # "s_put") => Cardinality(LiveWorkers) = max_workers

\* A job for document d is waiting in the queue or is held by a worker.
InFlight(d) ==
    \/ \E i \in 1..Len(job_queue) : job_queue[i].document_id = d
    \/ \E t \in Threads : job[t].document_id = d

\* The job becomes visible only after its record and its observer are in
\* place.
PutAfterRegister ==
    (cpc = "q_put" /\ Len(job_queue') > Len(job_queue))
        => /\ Exists(documents, c_doc_id)
           /\ job_queue'[Len(job_queue')].document_id = c_doc_id
           /\ c_cb # 0 => progress_callbacks[c_doc_id] = c_cb

\* queue_document leaves the observer of a document in place while a job
\* queued with that observer is waiting or running.  (An entry o for d was
\* made by the call that passed o, which also put a job for d; within
\* MaxQueueCalls calls no other call has put a job when the next one
\* registers.)
ObserverKept ==
    (cpc = "q_register" /\ progress_callbacks[c_doc_id] # 0
        /\ InFlight(c_doc_id))
        => progress_callbacks'[c_doc_id] = progress_callbacks[c_doc_id]

\* Every event a worker delivers goes to the observer registered for the
\* document of the job it holds.
DeliveredToRegistered ==
    (delivered' # NoEvent /\ cpc' = cpc)
        => delivered'.observer = progress_callbacks[delivered'.doc_id]

\* C36: queue_document writes the documents row and registers the observer
\* before it puts the job, and the observer it was given receives the event
\* (processing, 0) and every later event of the run that job starts: the row
\* and the registry entry are there when the job is put, the entry stays that
\* observer while the job is waiting or running, and the worker delivers to
\* the entry.
C36_ObserverReceivesRun ==
    [][PutAfterRegister /\ ObserverKept /\ DeliveredToRegistered]_vars

\* The ordering alone: record and observer are in place when the job is put.
C36_Ordering == [][PutAfterRegister /\ DeliveredToRegistered]_vars

\* One worker, two calls for one document, the second job still waiting: the
\* run of the first job, queued with observer 1, has just delivered
\* (processing, 0) to observer 2.
C36_FirstRunToSecondObserver ==
    /\ max_workers = 1 /\ ncalls = 2 /\ seq_documents = 1 /\ ndeletes = 0
    /\ Len(job_queue) = 1
    /\ pc[1] = "notify10"
    /\ delivered.progress = 0 /\ delivered.observer = 2

\* The number of jobs for document d that wait in the queue or are held by a
\* worker.
JobsFor(d) ==
    Cardinality({i \in 1..Len(job_queue) : job_queue[i].document_id = d})
        + Cardinality({t \in Threads : job[t].document_id = d})

\* C37: a worker writes a status to the documents table before it delivers
\* the event that reports it: when a worker delivers an event with status
\* processing, completed or failed for a document whose row exists and that
\* has one job in flight, the row's status is the status of the event.
C37_StatusWrittenBeforeEvent ==
    [][(/\ delivered' # NoEvent /\ cpc' = cpc
        /\ delivered'.status \in {"processing", "completed", "failed"}
        /\ JobsFor(delivered'.doc_id) = 1
        /\ Exists(documents', delivered'.doc_id))
        => documents'[delivered'.doc_id].status = delivered'.status]_vars

\* One worker holds the second job of the document at its first event while
\* the row already says failed: the run of the first job, which overlapped,
\* wrote its final status after this run wrote processing.
C37_OverlappingRuns ==
    \E t \in Threads :
        /\ pc[t] = "notify10"
        /\ delivered.status = "processing" /\ delivered.progress = 0
        /\ JobsFor(job[t].document_id) = 1
        /\ Status(job[t].document_id) = "failed"

\* C38: a documents row with status completed has no error message and has
\* its processed_at set, and a row with status pending or processing has no
\* error message: the message of an earlier failed run is gone as soon as the
\* document is processed again.
C38_ErrorClearedOnReprocess ==
    \A d \in DocIds :
        /\ Status(d) = "completed"
              => /\ documents[d].error_message = Null
                 /\ documents[d].processed_at # Null
        /\ Status(d) \in {"pending", "processing"}
              => documents[d].error_message = Null

\* C38 witness: a run of document d has written failed with its message and
\* has not yet reported it; another run has since set the row to processing,
\* and the message is gone.
C38_Witness ==
    \E t \in Threads :
        /\ pc[t] = "notify_failed"
        /\ error_msg[t] # ""
        /\ Status(job[t].document_id) = "processing"
        /\ documents[job[t].document_id].error_message = Null

\* ... and a completed row: no message, processed_at set.
C38_WitnessCompleted ==
    \E d \in DocIds :
        /\ Status(d) = "completed"
        /\ documents[d].error_message = Null
        /\ documents[d].processed_at # Null

====
